---------------------------- MODULE Spec2Model ----------------------------
(* The table example (examples/table.rs): the App navigation state        *)
(* (selection, scrollbar position, colour index), the column-width        *)
(* calculator and the draw / read / dispatch loop of run_app.             *)
EXTENDS Integers, Sequences, FiniteSets, TLC

(* app     the App owned by run_app: state (TableState.selected),         *)
(*         items, longest_item_lens, scroll_state, colors, color_index.   *)
(*         TableState's render offset belongs to the Table widget and is  *)
(*         not kept; rendering leaves an in-range selection as it is.     *)
(* pc      where run_app stands: "draw" before terminal.draw, "read"      *)
(*         before event::read, "done" once it has returned.               *)
(* result  "running", or the io::Result run_app returned: "Ok" / "Err".   *)
(* event   what the last event::read() returned (<<"None">> before the    *)
(*         first read, <<"Err">> for a failed read).                      *)
(* frame   what the last successful draw put on screen.                   *)
(* trace   the last HistLen terminal calls, "draw" or "read".             *)
VARIABLES app, pc, result, event, frame, trace

vars == <<app, pc, result, event, frame, trace>>

(* ------------------------------ bounds ------------------------------- *)

\* Dataset lengths 1..MaxLen are explored next to the generator's own length.
MaxLen == 3

\* Number of most recent terminal calls (draw / read) kept in the history.
HistLen == 2

(* ------------------------- program constants -------------------------- *)

\* const ITEM_HEIGHT: usize = 4;
ITEM_HEIGHT == 4

\* generate_fake_names: (0..20)
NUM_FAKE_NAMES == 20

\* const PALETTES: [tailwind::Palette; 4]
PALETTES == <<"BLUE", "EMERALD", "INDIGO", "RED">>

\* `as u16` keeps the low 16 bits
U16_MODULUS == 65536

(* ------------------------- Option<usize> ------------------------------ *)

None == <<>>

Some(i) == <<i>>

(* --------------------------- usize arithmetic ------------------------- *)
(* A usize is a natural number.  An operation whose mathematical result   *)
(* leaves the type (here: a subtraction below zero) yields -1, and every  *)
(* operation on such a value yields -1 again, so an underflow anywhere in *)
(* an expression shows in its result.                                     *)

usize_add(x, y) == IF x < 0 \/ y < 0 THEN -1 ELSE x + y

usize_sub(x, y) == IF x < 0 \/ y < 0 \/ x < y THEN -1 ELSE x - y

usize_mul(x, y) == IF x < 0 \/ y < 0 THEN -1 ELSE x * y

usize_rem(x, y) == IF x < 0 \/ y <= 0 THEN -1 ELSE x % y

(* ------------------------------ strings ------------------------------- *)
(* A string is a sequence of characters, each written as a string: an    *)
(* ASCII character as itself, "U+4E16" for a wide (East-Asian) character  *)
(* and "U+0301" for a zero-width combining mark.                          *)

Chars == {"a", "b", "c", "e", "s", "t", "x", "@", "U+4E16", "U+0301", "\n"}

\* unicode_width: columns taken by one character
char_width(c) == CASE c = "U+4E16" -> 2
                   [] c \in {"U+0301", "\n"} -> 0
                   [] OTHER -> 1

\* UnicodeWidthStr::width: the sum of the characters' widths, taken as
\* (number of characters of width w) * w over the widths 0, 1, 2
width(s) ==
    LET columns(w) == w * Cardinality({k \in DOMAIN s : char_width(s[k]) = w})
    IN columns(0) + columns(1) + columns(2)

RECURSIVE lines(_)
\* str::lines: the pieces between line feeds; a final empty piece is dropped
lines(s) ==
    IF s = <<>> THEN <<>>
    ELSE IF \E k \in 1..Len(s) : s[k] = "\n"
         THEN LET k == CHOOSE k \in 1..Len(s) :
                           /\ s[k] = "\n"
                           /\ \A j \in 1..(k - 1) : s[j] # "\n"
              IN <<SubSeq(s, 1, k - 1)>> \o lines(SubSeq(s, k + 1, Len(s)))
         ELSE <<s>>

\* Iterator::max().unwrap_or(0) over a sequence of usize
max_or_0(ws) ==
    IF ws = <<>> THEN 0
    ELSE CHOOSE m \in {ws[k] : k \in 1..Len(ws)} :
             \A k \in 1..Len(ws) : ws[k] <= m

RECURSIVE flat_map_lines(_)
\* .map(Data::address).flat_map(str::lines)
flat_map_lines(items) ==
    IF items = <<>> THEN <<>>
    ELSE lines(Head(items).address) \o flat_map_lines(Tail(items))

as_u16(x) == x % U16_MODULUS

constraint_len_calculator(items) ==
    LET name_len == max_or_0([k \in 1..Len(items) |-> width(items[k].name)])
        addr_lines == flat_map_lines(items)
        address_len == max_or_0([k \in 1..Len(addr_lines) |-> width(addr_lines[k])])
        email_len == max_or_0([k \in 1..Len(items) |-> width(items[k].email)])
    IN <<as_u16(name_len), as_u16(address_len), as_u16(email_len)>>

(* ------------------------------ dataset ------------------------------- *)

char_code(c) == CASE c = "\n" -> 0
                  [] c = "@" -> 1
                  [] c = "a" -> 2
                  [] c = "b" -> 3
                  [] c = "c" -> 4
                  [] c = "e" -> 5
                  [] c = "s" -> 6
                  [] c = "t" -> 7
                  [] c = "x" -> 8
                  [] c = "U+0301" -> 9
                  [] OTHER -> 10

RECURSIVE str_le(_, _)
\* a.name.cmp(&b.name) is not Greater
str_le(a, b) ==
    IF a = <<>> THEN TRUE
    ELSE IF b = <<>> THEN FALSE
    ELSE IF Head(a) = Head(b) THEN str_le(Tail(a), Tail(b))
    ELSE char_code(Head(a)) < char_code(Head(b))

RECURSIVE insert_by_name(_, _)
insert_by_name(d, sorted) ==
    IF sorted = <<>> THEN <<d>>
    ELSE IF str_le(Head(sorted).name, d.name)
         THEN <<Head(sorted)>> \o insert_by_name(d, Tail(sorted))
         ELSE <<d>> \o sorted

RECURSIVE sorted_by_name(_)
\* .sorted_by(|a, b| a.name.cmp(&b.name)): a stable sort
sorted_by_name(items) ==
    IF items = <<>> THEN <<>>
    ELSE insert_by_name(items[Len(items)],
                        sorted_by_name(SubSeq(items, 1, Len(items) - 1)))

\* One generated record.  Record k of a run of n has a name of n + 1 - k
\* letters, so the records leave the generator in descending name order.
fake_data(k, n) ==
    [name    |-> [j \in 1..(n + 1 - k) |-> IF j % 2 = 1 THEN "a" ELSE "b"],
     address |-> IF k % 2 = 1
                 THEN <<"s", "t", "\n", "c", "U+4E16", "s">>
                 ELSE <<"s", "\n", "c", "t">>,
     email   |-> IF k % 3 = 0 THEN <<"e", "U+0301", "@", "x", "x">> ELSE <<"e", "@", "x">>]

generate_fake_names(n) == sorted_by_name([k \in 1..n |-> fake_data(k, n)])

DataLens == (1..MaxLen) \cup {NUM_FAKE_NAMES}

(* ------------------------------ colours ------------------------------- *)

\* TableColors::new(color)
TableColors_new(color) ==
    [buffer_bg           |-> <<"SLATE", "c950">>,
     header_bg           |-> <<color, "c900">>,
     header_fg           |-> <<"SLATE", "c200">>,
     row_fg              |-> <<"SLATE", "c200">>,
     selected_style_fg   |-> <<color, "c400">>,
     normal_row_color    |-> <<"SLATE", "c950">>,
     alt_row_color       |-> <<"SLATE", "c900">>,
     footer_border_color |-> <<color, "c400">>]

(* -------------------------------- App --------------------------------- *)

\* ScrollbarState::new(content_length)
ScrollbarState_new(content_length) ==
    [content_length |-> content_length, position |-> 0]

\* ScrollbarState::position(self, position)
position(scroll_state, p) == [scroll_state EXCEPT !.position = p]

\* App::new with the scrollbar extent taken from len instead of len - 1
App_new_len_extent(data_vec) ==
    [state             |-> [selected |-> Some(0)],
     longest_item_lens |-> constraint_len_calculator(data_vec),
     scroll_state      |-> ScrollbarState_new(usize_mul(Len(data_vec), ITEM_HEIGHT)),
     colors            |-> TableColors_new(PALETTES[1]),
     color_index       |-> 0,
     items             |-> data_vec]

\* App::new, for a generated dataset data_vec
App_new(data_vec) ==
    [state             |-> [selected |-> Some(0)],
     longest_item_lens |-> constraint_len_calculator(data_vec),
     scroll_state      |-> ScrollbarState_new(
                               usize_mul(usize_sub(Len(data_vec), 1), ITEM_HEIGHT)),
     colors            |-> TableColors_new(PALETTES[1]),
     color_index       |-> 0,
     items             |-> data_vec]

\* next with the scrollbar left where it was
next_stale_scroll(a) ==
    LET sel == a.state.selected
        i == IF sel # None
             THEN IF sel[1] >= usize_sub(Len(a.items), 1)
                  THEN 0
                  ELSE usize_add(sel[1], 1)
             ELSE 0
    IN [a EXCEPT !.state.selected = Some(i)]

\* next that stops at the last row instead of wrapping
next_no_wrap(a) ==
    LET sel == a.state.selected
        i == IF sel # None
             THEN IF sel[1] >= usize_sub(Len(a.items), 1)
                  THEN sel[1]
                  ELSE usize_add(sel[1], 1)
             ELSE 0
    IN [a EXCEPT !.state.selected = Some(i),
                 !.scroll_state = position(a.scroll_state, usize_mul(i, ITEM_HEIGHT))]

\* next that compares with len instead of len - 1
next_off_by_one(a) ==
    LET sel == a.state.selected
        i == IF sel # None
             THEN IF sel[1] >= Len(a.items)
                  THEN 0
                  ELSE usize_add(sel[1], 1)
             ELSE 0
    IN [a EXCEPT !.state.selected = Some(i),
                 !.scroll_state = position(a.scroll_state, usize_mul(i, ITEM_HEIGHT))]

\* App::next
next(a) ==
    LET sel == a.state.selected
        i == IF sel # None
             THEN IF sel[1] >= usize_sub(Len(a.items), 1)
                  THEN 0
                  ELSE usize_add(sel[1], 1)
             ELSE 0
    IN [a EXCEPT !.state.selected = Some(i),
                 !.scroll_state = position(a.scroll_state, usize_mul(i, ITEM_HEIGHT))]

\* previous that wraps to len instead of len - 1
previous_wrap_to_len(a) ==
    LET sel == a.state.selected
        i == IF sel # None
             THEN IF sel[1] = 0
                  THEN Len(a.items)
                  ELSE usize_sub(sel[1], 1)
             ELSE 0
    IN [a EXCEPT !.state.selected = Some(i),
                 !.scroll_state = position(a.scroll_state, usize_mul(i, ITEM_HEIGHT))]

\* previous without the i == 0 test
previous_underflow(a) ==
    LET sel == a.state.selected
        i == IF sel # None
             THEN usize_sub(sel[1], 1)
             ELSE 0
    IN [a EXCEPT !.state.selected = Some(i),
                 !.scroll_state = position(a.scroll_state, usize_mul(i, ITEM_HEIGHT))]

\* App::previous
previous(a) ==
    LET sel == a.state.selected
        i == IF sel # None
             THEN IF sel[1] = 0
                  THEN usize_sub(Len(a.items), 1)
                  ELSE usize_sub(sel[1], 1)
             ELSE 0
    IN [a EXCEPT !.state.selected = Some(i),
                 !.scroll_state = position(a.scroll_state, usize_mul(i, ITEM_HEIGHT))]

\* next_color that also goes back to the first row
next_color_reset_row(a) ==
    [a EXCEPT !.color_index = usize_rem(usize_add(a.color_index, 1), Len(PALETTES)),
              !.state.selected = Some(0),
              !.scroll_state = position(a.scroll_state, 0)]

\* next_color that advances by two
next_color_skip(a) ==
    [a EXCEPT !.color_index = usize_rem(usize_add(a.color_index, 2), Len(PALETTES))]

\* App::next_color
next_color(a) ==
    [a EXCEPT !.color_index = usize_rem(usize_add(a.color_index, 1), Len(PALETTES))]

\* previous_color that subtracts before adding count
previous_color_underflow(a) ==
    LET count == Len(PALETTES)
    IN [a EXCEPT !.color_index = usize_rem(usize_sub(a.color_index, 1), count)]

\* App::previous_color
previous_color(a) ==
    LET count == Len(PALETTES)
    IN [a EXCEPT !.color_index =
                     usize_rem(usize_sub(usize_add(a.color_index, count), 1), count)]

\* App::set_colors.  PALETTES[self.color_index] is 0-based in the source.
set_colors(a) == [a EXCEPT !.colors = TableColors_new(PALETTES[a.color_index + 1])]

(* ------------------------------- events ------------------------------- *)

Char(c) == <<"Char", c>>

KeyCodes == {Char("q"), <<"Esc">>, Char("j"), <<"Down">>, Char("k"), <<"Up">>,
             Char("l"), <<"Right">>, Char("h"), <<"Left">>,
             Char("x"), Char("Q"), <<"Enter">>}

KeyEventKinds == {"Press", "Repeat", "Release"}

\* Event::Key(KeyEvent {code, kind, ..})
Key(code, kind) == <<"Key", code, kind>>

\* what event::read() can return on success
Events == {Key(c, k) : c \in KeyCodes, k \in KeyEventKinds}
              \cup {<<"Mouse">>, <<"Resize">>, <<"FocusGained">>, <<"Paste">>}

\* the match without the Esc pattern
command_no_esc(ev) ==
    IF ev[1] = "Key" /\ ev[3] = "Press"
    THEN CASE ev[2] = Char("q")                  -> "quit"
           [] ev[2] \in {Char("j"), <<"Down">>}  -> "next"
           [] ev[2] \in {Char("k"), <<"Up">>}    -> "previous"
           [] ev[2] \in {Char("l"), <<"Right">>} -> "next_color"
           [] ev[2] \in {Char("h"), <<"Left">>}  -> "previous_color"
           [] OTHER -> "none"
    ELSE "none"

\* the match without the key.kind == Press test
command_any_kind(ev) ==
    IF ev[1] = "Key"
    THEN CASE ev[2] \in {Char("q"), <<"Esc">>}   -> "quit"
           [] ev[2] \in {Char("j"), <<"Down">>}  -> "next"
           [] ev[2] \in {Char("k"), <<"Up">>}    -> "previous"
           [] ev[2] \in {Char("l"), <<"Right">>} -> "next_color"
           [] ev[2] \in {Char("h"), <<"Left">>}  -> "previous_color"
           [] OTHER -> "none"
    ELSE "none"

\* run_app: the `if let Event::Key` / `key.kind == Press` / `match key.code`
\* decision; the arm that is taken
command(ev) ==
    IF ev[1] = "Key" /\ ev[3] = "Press"
    THEN CASE ev[2] \in {Char("q"), <<"Esc">>}   -> "quit"
           [] ev[2] \in {Char("j"), <<"Down">>}  -> "next"
           [] ev[2] \in {Char("k"), <<"Up">>}    -> "previous"
           [] ev[2] \in {Char("l"), <<"Right">>} -> "next_color"
           [] ev[2] \in {Char("h"), <<"Left">>}  -> "previous_color"
           [] OTHER -> "none"
    ELSE "none"

\* the match with the bodies of the row arms exchanged
apply_swapped(a, cmd) ==
    CASE cmd = "next"           -> previous(a)
      [] cmd = "previous"       -> next(a)
      [] cmd = "next_color"     -> next_color(a)
      [] cmd = "previous_color" -> previous_color(a)
      [] OTHER -> a

\* the arm's effect on the App
apply(a, cmd) ==
    CASE cmd = "next"           -> next(a)
      [] cmd = "previous"       -> previous(a)
      [] cmd = "next_color"     -> next_color(a)
      [] cmd = "previous_color" -> previous_color(a)
      [] OTHER -> a

(* ------------------------------- the loop ----------------------------- *)

\* the last HistLen terminal calls, oldest first
Push(h, e) == IF Len(h) < HistLen THEN Append(h, e) ELSE Append(Tail(h), e)

\* ui without the set_colors call
ui_no_set_colors(a) == a

\* ui: set_colors, then render_table / render_scrollbar / render_footer
ui(a) == set_colors(a)

\* what the three render calls put on screen, read from the App
rendered(a) ==
    [colors         |-> a.colors,
     selected       |-> a.state.selected,
     rows           |-> Len(a.items),
     widths         |-> a.longest_item_lens,
     position       |-> a.scroll_state.position,
     content_length |-> a.scroll_state.content_length]

Init ==
    /\ \E n \in DataLens : app = App_new(generate_fake_names(n))
    /\ pc = "draw"
    /\ result = "running"
    /\ event = <<"None">>
    /\ frame = <<>>
    /\ trace = <<>>

\* terminal.draw(|f| ui(f, &mut app))? succeeds
Draw ==
    /\ pc = "draw"
    /\ app' = ui(app)
    /\ frame' = rendered(app')
    /\ trace' = Push(trace, "draw")
    /\ pc' = "read"
    /\ UNCHANGED <<result, event>>

\* terminal.draw(..)? fails, before or after the closure ran: return Err
DrawFail ==
    /\ pc = "draw"
    /\ app' \in {app, ui(app)}
    /\ trace' = Push(trace, "draw")
    /\ pc' = "done"
    /\ result' = "Err"
    /\ UNCHANGED <<event, frame>>

\* a loop that draws once and then only reads
Read_no_redraw(ev) ==
    /\ pc = "read"
    /\ event' = ev
    /\ trace' = Push(trace, "read")
    /\ IF command(ev) = "quit"
       THEN /\ pc' = "done"
            /\ result' = "Ok"
            /\ app' = app
       ELSE /\ pc' = "read"
            /\ app' = apply(app, command(ev))
            /\ UNCHANGED result
    /\ UNCHANGED frame

\* a match whose quit arm also takes Enter
Read_enter_quits(ev) ==
    /\ pc = "read"
    /\ event' = ev
    /\ trace' = Push(trace, "read")
    /\ IF command(ev) = "quit" \/ ev = Key(<<"Enter">>, "Press")
       THEN /\ pc' = "done"
            /\ result' = "Ok"
            /\ app' = app
       ELSE /\ pc' = "draw"
            /\ app' = apply(app, command(ev))
            /\ UNCHANGED result
    /\ UNCHANGED frame

\* event::read()? returns ev, and the match on it
Read(ev) ==
    /\ pc = "read"
    /\ event' = ev
    /\ trace' = Push(trace, "read")
    /\ IF command(ev) = "quit"
       THEN /\ pc' = "done"
            /\ result' = "Ok"
            /\ app' = app
       ELSE /\ pc' = "draw"
            /\ app' = apply(app, command(ev))
            /\ UNCHANGED result
    /\ UNCHANGED frame

\* a failed read that is dropped instead of returned
ReadFail_retry ==
    /\ pc = "read"
    /\ event' = <<"Err">>
    /\ trace' = Push(trace, "read")
    /\ pc' = "draw"
    /\ UNCHANGED <<app, frame, result>>

\* event::read()? fails: return Err
ReadFail ==
    /\ pc = "read"
    /\ event' = <<"Err">>
    /\ trace' = Push(trace, "read")
    /\ pc' = "done"
    /\ result' = "Err"
    /\ UNCHANGED <<app, frame>>

Next ==
    \/ Draw
    \/ DrawFail
    \/ \E ev \in Events : Read(ev)
    \/ ReadFail

Spec == Init /\ [][Next]_vars

\* the loop's two states
Running == pc \in {"draw", "read"}

Exiting == pc = "done"

(* ------------------- datasets for the width calculator ---------------- *)

\* largest number of records in an enumerated dataset
MaxRecords == 2

\* tests::constraint_len_calculator: test_data
test_data == <<
    [name    |-> <<"E", "m", "i", "r", "h", "a", "n", " ", "T", "a", "l", "a">>,
     address |-> <<"C", "a", "m", "b", "r", "i", "d", "g", "e", "l", "a", "a", 
                  "n", " ", "6", "X", "X", "\n", "3", "5", "8", "4", " ", 
                  "X", "X", " ", "U", "t", "r", "e", "c", "h", "t">>,
     email   |-> <<"t", "a", "l", "a", ".", "e", "m", "i", "r", "h", "a", "n", 
                  "@", "g", "m", "a", "i", "l", ".", "c", "o", "m">>],
    [name    |-> <<"t", "h", "i", "s", "t", "e", "x", "t", "i", "s", "2", "6", 
                  "c", "h", "a", "r", "a", "c", "t", "e", "r", "s", "l", "o", 
                  "n", "g">>,
     address |-> <<"t", "h", "i", "s", " ", "l", "i", "n", "e", " ", "i", "s", 
                  " ", "3", "1", " ", "c", "h", "a", "r", "a", "c", "t", "e", 
                  "r", "s", " ", "l", "o", "n", "g", "\n", "b", "o", "t", 
                  "t", "o", "m", " ", "l", "i", "n", "e", " ", "i", "s", " ", 
                  "3", "3", " ", "c", "h", "a", "r", "a", "c", "t", "e", "r", 
                  "s", " ", "l", "o", "n", "g">>,
     email   |-> <<"t", "h", "i", "s", "e", "m", "a", "i", "l", "i", "s", "4", 
                  "0", "c", "a", "h", "a", "r", "a", "c", "t", "e", "r", "s", 
                  "l", "o", "n", "g", "@", "r", "a", "t", "a", "t", "u", "i", 
                  ".", "c", "o", "m">>]
>>

NamePool == {<<"a", "b">>, <<"U+4E16", "a", "U+4E16", "U+0301">>}

AddressPool == {<<"s", "t", "\n", "c">>,
                <<"s", "\n", "c", "U+4E16", "t", "\n">>,
                <<"U+4E16", "U+4E16", "U+4E16">>}

EmailPool == {<<"e", "@", "x">>, <<"e", "U+0301", "@", "x", "U+4E16">>}

DataPool == [name : NamePool, address : AddressPool, email : EmailPool]

\* a String of 2^15 wide characters: display width 2^16
wide_string == [j \in 1..(U16_MODULUS \div 2) |-> "U+4E16"]

\* datasets whose widths do not fit 16 bits: in the name, in one line of
\* the address, in the email
wide_data == {<<[name |-> wide_string, address |-> <<"s">>, email |-> <<"e">>]>>,
              <<[name |-> <<"a">>, address |-> <<"s", "\n">> \o wide_string,
                 email |-> <<"e">>]>>,
              <<[name |-> <<"a">>, address |-> <<"s">>, email |-> wide_string]>>}

\* the slices constraint_len_calculator is applied to
WidthDatasets ==
    UNION {[1..n -> DataPool] : n \in 1..MaxRecords} \cup {test_data} \cup wide_data

\* App::new over any dataset the calculator accepts, then run_app
InitWidth ==
    /\ \E d \in WidthDatasets : app = App_new(d)
    /\ pc = "draw"
    /\ result = "running"
    /\ event = <<"None">>
    /\ frame = <<>>
    /\ trace = <<>>

SpecWidth == InitWidth /\ [][Next]_vars

(* ---------------- the program over any dataset length ----------------- *)
(* App::new subtracts 1 from the dataset length.  With overflow checks on *)
(* (the dev profile) a usize overflow panics; with them off (the release  *)
(* profile) the result wraps modulo 2^64.  A wrapped usize within reach   *)
(* of 2^64 is written as the negative number that lies 2^64 below it      *)
(* (-1 is usize::MAX); sums, differences and products of such numbers are *)
(* the wrapped results as long as they stay small, as they do here.       *)

\* how far the selection may walk from 0 over an empty dataset
MaxWalk == 3

wrapping_add(x, y) == x + y

wrapping_sub(x, y) == x - y

wrapping_mul(x, y) == x * y

\* x >= y on usize
usize_ge(x, y) == IF (x < 0) = (y < 0) THEN x >= y ELSE x < 0

\* App::new with overflow checks off
App_new_wrapping(data_vec) ==
    [state             |-> [selected |-> Some(0)],
     longest_item_lens |-> constraint_len_calculator(data_vec),
     scroll_state      |-> ScrollbarState_new(
                               wrapping_mul(wrapping_sub(Len(data_vec), 1), ITEM_HEIGHT)),
     colors            |-> TableColors_new(PALETTES[1]),
     color_index       |-> 0,
     items             |-> data_vec]

\* App::next with overflow checks off
next_wrapping(a) ==
    LET sel == a.state.selected
        i == IF sel # None
             THEN IF usize_ge(sel[1], wrapping_sub(Len(a.items), 1))
                  THEN 0
                  ELSE wrapping_add(sel[1], 1)
             ELSE 0
    IN [a EXCEPT !.state.selected = Some(i),
                 !.scroll_state = position(a.scroll_state, wrapping_mul(i, ITEM_HEIGHT))]

\* App::previous with overflow checks off
previous_wrapping(a) ==
    LET sel == a.state.selected
        i == IF sel # None
             THEN IF sel[1] = 0
                  THEN wrapping_sub(Len(a.items), 1)
                  ELSE wrapping_sub(sel[1], 1)
             ELSE 0
    IN [a EXCEPT !.state.selected = Some(i),
                 !.scroll_state = position(a.scroll_state, wrapping_mul(i, ITEM_HEIGHT))]

\* the match arm's effect with overflow checks off; the colour operations
\* cannot overflow
apply_wrapping(a, cmd) ==
    CASE cmd = "next"           -> next_wrapping(a)
      [] cmd = "previous"       -> previous_wrapping(a)
      [] cmd = "next_color"     -> next_color(a)
      [] cmd = "previous_color" -> previous_color(a)
      [] OTHER -> a

AnyLens == {0} \cup DataLens

\* main: App::new over a dataset of any length.  Where the subtraction
\* overflows, either it panics and no App exists (app holds only the
\* dataset), or it wraps and run_app starts on the App.
InitAny ==
    /\ \E n \in AnyLens :
          LET data_vec == generate_fake_names(n)
          IN \/ /\ App_new(data_vec).scroll_state.content_length < 0
                /\ app = [items |-> data_vec]
                /\ pc = "done"
                /\ result = "panicked"
             \/ /\ app = App_new_wrapping(data_vec)
                /\ pc = "draw"
                /\ result = "running"
    /\ event = <<"None">>
    /\ frame = <<>>
    /\ trace = <<>>

\* event::read()? returns ev, and the match on it, with overflow checks off
ReadWrapping(ev) ==
    /\ pc = "read"
    /\ event' = ev
    /\ trace' = Push(trace, "read")
    /\ IF command(ev) = "quit"
       THEN /\ pc' = "done"
            /\ result' = "Ok"
            /\ app' = app
       ELSE /\ pc' = "draw"
            /\ app' = apply_wrapping(app, command(ev))
            /\ Len(app.items) = 0 => app'.state.selected[1] \in (0 - MaxWalk)..MaxWalk
            /\ UNCHANGED result
    /\ UNCHANGED frame

NextAny ==
    \/ Draw
    \/ DrawFail
    \/ \E ev \in Events : ReadWrapping(ev)
    \/ ReadFail

SpecAny == InitAny /\ [][NextAny]_vars

(* ============================== claims ================================ *)

\* the row count, the selected row and the colour index of the current App
n_items == Len(app.items)

sel_index == app.state.selected[1]

nav(a) == <<a.state.selected, a.scroll_state.position>>

RECURSIVE next_times(_, _)
next_times(a, k) == IF k = 0 THEN a ELSE next_times(next(a), k - 1)

RECURSIVE next_color_times(_, _)
next_color_times(a, k) == IF k = 0 THEN a ELSE next_color_times(next_color(a), k - 1)

\* C1: in every reachable state the scrollbar position equals the selected
\* row index times ITEM_HEIGHT.
C1_ScrollLockStep ==
    /\ app.state.selected # None
    /\ app.scroll_state.position = sel_index * ITEM_HEIGHT

C1_Witness ==
    /\ pc = "draw"
    /\ command(event) = "next"
    /\ app.state.selected = Some(5)
    /\ app.scroll_state.position = 20

\* C2: for a dataset of n >= 1 rows the selection is always Some(i) with
\* 0 <= i < n; it is Some(0) before the first terminal call.
C2_SelectionInRange ==
    /\ n_items >= 1 =>
           /\ app.state.selected # None
           /\ sel_index \in 0..(n_items - 1)
    /\ trace = <<>> => app.state.selected = Some(0)

C2_Witness ==
    /\ pc = "draw"
    /\ command(event) = "previous"
    /\ n_items = NUM_FAKE_NAMES
    /\ app.state.selected = Some(NUM_FAKE_NAMES - 1)

\* C3: from every reachable selection, n applications of next restore the
\* selection and the scroll position, and previous undoes next and next
\* undoes previous.
C3_NextPreviousCycle ==
    /\ nav(next_times(app, n_items)) = nav(app)
    /\ nav(previous(next(app))) = nav(app)
    /\ nav(next(previous(app))) = nav(app)

C3_Witness ==
    /\ command(event) = "next"
    /\ n_items = NUM_FAKE_NAMES
    /\ app.state.selected = Some(NUM_FAKE_NAMES - 1)
    /\ nav(next(app)) = <<Some(0), 0>>

\* C4: next selects (selected + 1) mod n, the last row wrapping to row 0,
\* and selects 0 from None; the loop's next arm has that effect on the row
\* shown in the last frame.  With n = 20, from 19 it gives 0, scroll 0.
C4_NextRow ==
    /\ app.state.selected # None
    /\ next(app).state.selected = Some((sel_index + 1) % n_items)
    /\ next([app EXCEPT !.state.selected = None]).state.selected = Some(0)
    /\ (n_items = 20 /\ sel_index = 19) => nav(next(app)) = <<Some(0), 0>>
    /\ (pc = "draw" /\ command(event) = "next") =>
           app.state.selected = Some((frame.selected[1] + 1) % n_items)

C4_Witness ==
    /\ pc = "draw"
    /\ command(event) = "next"
    /\ n_items = 20
    /\ frame.selected = Some(19)
    /\ nav(app) = <<Some(0), 0>>

\* C5: previous selects (selected - 1 + n) mod n, row 0 wrapping to the
\* last row with no subtraction below zero, and selects 0 from None; the
\* loop's previous arm has that effect.  With n = 20, from 0 it gives 19,
\* scroll 76.
C5_PreviousRow ==
    /\ app.state.selected # None
    /\ previous(app).state.selected = Some((sel_index - 1 + n_items) % n_items)
    /\ previous(app).scroll_state.position >= 0
    /\ previous([app EXCEPT !.state.selected = None]).state.selected = Some(0)
    /\ (n_items = 20 /\ sel_index = 0) => nav(previous(app)) = <<Some(19), 76>>
    /\ (pc = "draw" /\ command(event) = "previous") =>
           app.state.selected = Some((frame.selected[1] - 1 + n_items) % n_items)

C5_Witness ==
    /\ pc = "draw"
    /\ command(event) = "previous"
    /\ n_items = 20
    /\ frame.selected = Some(0)
    /\ nav(app) = <<Some(19), 76>>

\* C6: with k = 4 palettes, k applications of next_color restore
\* color_index, and previous_color undoes next_color and next_color undoes
\* previous_color.
C6_ColorCycle ==
    /\ Len(PALETTES) = 4
    /\ next_color_times(app, Len(PALETTES)).color_index = app.color_index
    /\ previous_color(next_color(app)).color_index = app.color_index
    /\ next_color(previous_color(app)).color_index = app.color_index

C6_Witness ==
    /\ command(event) = "next_color"
    /\ app.color_index = 3
    /\ next_color(app).color_index = 0

\* C7: color_index is 0 at the start and always in [0, k); next_color gives
\* (t + 1) mod k and previous_color (t - 1 + k) mod k, 3 from 0, so
\* PALETTES[color_index] is always defined.
C7_ColorIndexInRange ==
    /\ app.color_index \in 0..(Len(PALETTES) - 1)
    /\ trace = <<>> => app.color_index = 0
    /\ next_color(app).color_index = (app.color_index + 1) % Len(PALETTES)
    /\ previous_color(app).color_index =
           (app.color_index - 1 + Len(PALETTES)) % Len(PALETTES)
    /\ app.color_index = 0 => previous_color(app).color_index = 3
    /\ (app.color_index + 1) \in DOMAIN PALETTES
    /\ (pc = "draw" /\ command(event) = "previous_color"
            /\ frame.colors = TableColors_new(PALETTES[1])) => app.color_index = 3

C7_Witness ==
    /\ pc = "draw"
    /\ command(event) = "previous_color"
    /\ frame.colors = TableColors_new(PALETTES[1])
    /\ app.color_index = 3

QuitPresses == {Key(Char("q"), "Press"), Key(<<"Esc">>, "Press")}

\* C8: a press of 'q' or Esc read while Running moves the loop to Exiting,
\* and no step leaves Exiting: nothing is drawn, read or changed after it.
C8_QuitIsTerminal ==
    /\ [][(pc = "read" /\ event' \in QuitPresses) => (pc' = "done" /\ result' = "Ok")]_vars
    /\ [][pc = "done" => UNCHANGED vars]_vars

C8_Witness ==
    /\ Exiting
    /\ result = "Ok"
    /\ event = Key(<<"Esc">>, "Press")
    /\ app.state.selected = Some(2)

\* C9: draw and read alternate, starting with a draw: the first terminal
\* call is a draw, no two consecutive calls are of the same kind, and while
\* the loop waits for input the last call was a draw of the current state.
C9_Alternation ==
    /\ trace = <<>> => pc = "draw"
    /\ Len(trace) = 1 => trace = <<"draw">>
    /\ \A k \in 1..(Len(trace) - 1) : trace[k] # trace[k + 1]
    /\ pc = "draw" => (trace = <<>> \/ trace[Len(trace)] = "read")
    /\ pc = "read" =>
           /\ trace # <<>>
           /\ trace[Len(trace)] = "draw"
           /\ frame = rendered(app)

C9_Witness ==
    /\ pc = "read"
    /\ Len(trace) >= 2
    /\ trace[Len(trace) - 1] = "read"
    /\ trace[Len(trace)] = "draw"
    /\ command(event) = "next"
    /\ frame.selected = Some(1)

ActedCodes == {Char("q"), <<"Esc">>, Char("j"), <<"Down">>, Char("k"), <<"Up">>,
               Char("l"), <<"Right">>, Char("h"), <<"Left">>}

\* key presses outside the quit/move set, key events that are not presses,
\* and events that are not key events
IgnoredEvents ==
    {ev \in Events : \/ ev[1] # "Key"
                     \/ ev[3] # "Press"
                     \/ ev[2] \notin ActedCodes}

\* C10: reading an input that is not acted on leaves the loop Running and
\* the App (selection, scroll position, colour index) unchanged.
C10_IgnoredInputs ==
    [][(pc = "read" /\ event' \in IgnoredEvents) =>
           (pc' = "draw" /\ app' = app /\ result' = "running")]_vars

C10_Witness ==
    /\ pc = "draw"
    /\ Running
    /\ event = Key(Char("q"), "Release")
    /\ frame = rendered(app)
    /\ nav(app) = <<Some(1), ITEM_HEIGHT>>
    /\ app.color_index = 2

\* the largest number of a finite set of naturals, 0 for the empty set
greatest(S) == IF S = {} THEN 0 ELSE CHOOSE m \in S : \A x \in S : x <= m

name_widths(items) == {width(items[k].name) : k \in DOMAIN items}

address_line_widths(items) ==
    UNION {{width(lines(items[k].address)[j]) :
                j \in DOMAIN lines(items[k].address)} : k \in DOMAIN items}

email_widths(items) == {width(items[k].email) : k \in DOMAIN items}

\* C11: for every non-empty dataset the three widths App::new stores are
\* the greatest name width, the greatest width of any single address line
\* and the greatest email width; the empty dataset gives (0, 0, 0) and the
\* test's two records give (26, 33, 40).
C11_WidthsAreMaxima ==
    /\ app.longest_item_lens = <<greatest(name_widths(app.items)),
                                 greatest(address_line_widths(app.items)),
                                 greatest(email_widths(app.items))>>
    /\ constraint_len_calculator(<<>>) = <<0, 0, 0>>
    /\ constraint_len_calculator(test_data) = <<26, 33, 40>>

\* C12: each stored width is at least the display width of every name,
\* of every line of every address, and of every email of the dataset.
C12_WidthsCoverEveryValue ==
    /\ \A w \in name_widths(app.items) : app.longest_item_lens[1] >= w
    /\ \A w \in address_line_widths(app.items) : app.longest_item_lens[2] >= w
    /\ \A w \in email_widths(app.items) : app.longest_item_lens[3] >= w

nav3(a) == <<a.state.selected, a.scroll_state.position, a.color_index>>

\* C15: a failed read or a failed draw ends the loop with that error: the
\* step applies no navigation operation and shows no frame, and nothing
\* is drawn, read or changed afterwards.
C15_FailureStopsLoop ==
    /\ [][(pc = "read" /\ event' = <<"Err">>) =>
              (pc' = "done" /\ result' = "Err" /\ app' = app /\ frame' = frame)]_vars
    /\ [][(pc = "draw" /\ result' = "Err") =>
              (pc' = "done" /\ nav3(app') = nav3(app) /\ frame' = frame)]_vars
    /\ [][result = "Err" => UNCHANGED vars]_vars

C15_Witness ==
    /\ Exiting
    /\ result = "Err"
    /\ event = <<"Err">>
    /\ nav3(app) = <<Some(2), 2 * ITEM_HEIGHT, 1>>

\* C16: a frame is rendered with the colours of the current color_index:
\* right after a draw, app.colors and the frame's colours are
\* TableColors::new(PALETTES[color_index]), although next_color and
\* previous_color leave app.colors as it was.
C16_FrameUsesLatestPalette ==
    /\ pc = "read" =>
           /\ app.colors = TableColors_new(PALETTES[app.color_index + 1])
           /\ frame.colors = TableColors_new(PALETTES[app.color_index + 1])
    /\ next_color(app).colors = app.colors
    /\ previous_color(app).colors = app.colors

C16_Witness ==
    /\ pc = "read"
    /\ command(event) = "next_color"
    /\ app.color_index = 1
    /\ frame.colors = TableColors_new("EMERALD")

Presses(codes) == {Key(c, "Press") : c \in codes}

\* C17: a press of j/Down applies next once, k/Up previous, l/Right
\* next_color, h/Left previous_color, and the loop stays Running.
C17_OneOperationPerCommand ==
    [][pc = "read" =>
          /\ event' \in Presses({Char("j"), <<"Down">>}) =>
                 (app' = next(app) /\ pc' = "draw" /\ result' = "running")
          /\ event' \in Presses({Char("k"), <<"Up">>}) =>
                 (app' = previous(app) /\ pc' = "draw" /\ result' = "running")
          /\ event' \in Presses({Char("l"), <<"Right">>}) =>
                 (app' = next_color(app) /\ pc' = "draw" /\ result' = "running")
          /\ event' \in Presses({Char("h"), <<"Left">>}) =>
                 (app' = previous_color(app) /\ pc' = "draw" /\ result' = "running")]_vars

C17_Witness ==
    /\ pc = "draw"
    /\ Running
    /\ event = Key(Char("k"), "Press")
    /\ frame.selected = Some(2)
    /\ nav3(app) = <<Some(1), ITEM_HEIGHT, 0>>

\* C18: for n >= 1 the scrollbar's content length is (n - 1) * ITEM_HEIGHT
\* in every state and the position lies between 0 and it.
C18_ScrollExtent ==
    n_items >= 1 =>
        /\ app.scroll_state.content_length = (n_items - 1) * ITEM_HEIGHT
        /\ app.scroll_state.position \in 0..app.scroll_state.content_length

C18_Witness ==
    /\ command(event) = "previous"
    /\ app.scroll_state.content_length = 76
    /\ app.scroll_state.position = 76

\* C19: next and previous leave color_index as it is, next_color and
\* previous_color leave the selection and the scroll position, and all
\* four leave the dataset and the widths: in every state these are still
\* the generated dataset and the widths computed from it.
C19_OperationsIndependent ==
    /\ next(app).color_index = app.color_index
    /\ previous(app).color_index = app.color_index
    /\ nav(next_color(app)) = nav(app)
    /\ nav(previous_color(app)) = nav(app)
    /\ \A cmd \in {"next", "previous", "next_color", "previous_color"} :
           /\ apply(app, cmd).items = app.items
           /\ apply(app, cmd).longest_item_lens = app.longest_item_lens
    /\ app.items = generate_fake_names(n_items)
    /\ app.longest_item_lens = constraint_len_calculator(app.items)

C19_Witness ==
    /\ pc = "draw"
    /\ command(event) = "next_color"
    /\ nav3(app) = <<Some(2), 2 * ITEM_HEIGHT, 1>>

\* C20: the loop leaves Running only in the step that reads a press of 'q'
\* or Esc, or in a step that fails; reading such a press ends the loop in
\* that very step, with no draw after the read; so if a quit press is ever
\* read the loop is eventually Exiting.
C20_ExitOnlyOnQuit ==
    /\ [][(Running /\ Exiting') =>
              \/ (pc = "read" /\ event' \in QuitPresses /\ result' = "Ok")
              \/ result' = "Err"]_vars
    /\ [][(pc = "read" /\ event' \in QuitPresses) =>
              (Exiting' /\ frame' = frame /\ trace' = Push(trace, "read"))]_vars
    /\ <>(event \in QuitPresses) => <>Exiting

C20_Witness ==
    /\ Exiting
    /\ result = "Ok"
    /\ event = Key(Char("q"), "Press")
    /\ trace[Len(trace)] = "read"
    /\ app.color_index = 1

=============================================================================
